---- MODULE Spec2Model ----
(***************************************************************************)
(* jpeg-bot (src/main.go): a Mastodon bot that listens on the user stream, *)
(* and for every mention collects the images of the mentioning status (or  *)
(* of the status it replies to), recompresses each one as a quality-5 JPEG *)
(* and answers with the result or with an error reply.                     *)
(*                                                                         *)
(* The external collaborators (configuration file, streaming connection,   *)
(* GetStatus, http.Get, io.ReadAll, the image codecs, UploadMedia,         *)
(* PostStatus) are nondeterministic: every outcome their contracts allow   *)
(* is drawn with \E at the call.  `calls` is the trace of the requests the *)
(* handler of the current event has sent to the service and to the web.    *)
(***************************************************************************)
EXTENDS Integers, Sequences, FiniteSets, TLC

VARIABLES
    loop,          \* main: "starting" | "connecting" | "listening" | "terminated"
    exit,          \* why main ended: "none" | "config" | "connect" | "closed" | "panic"
    streamOpen,    \* the events channel of StreamingWSUser is open
    nEvents,       \* events taken from the channel so far
    event,         \* the loop variable of main: the event taken last
    pc,            \* position inside handleMention ("idle": in the range loop of main)
    notification,  \* the notification being handled (handleMention's argument)
    fetched,       \* the answer GetStatus gave inside collectImages, if it was called
    images,        \* handleMention's local `images`
    idx,           \* index of the image of the range loop over `images`
    cur,           \* values handed from one pipeline stage to the next
    calls,         \* requests sent while handling the current event, in order
    outcome,       \* per image of the current event: how its pipeline ended
    logs,          \* lines the last step wrote with log.Printf
    decIn,         \* decodeImage's argument   (decoder specification only)
    decOut         \* decodeImage's trace and result (decoder specification only)

vars == <<loop, exit, streamOpen, nEvents, event, pc, notification, fetched, images,
          idx, cur, calls, outcome, logs, decIn, decOut>>

-----------------------------------------------------------------------------
(* Bounds of the model.                                                    *)

MaxEvents == 2
MaxAttachments == 2

(* main.go:149, imgData[:8]: the length of the PNG signature.              *)
SigLen == 8

-----------------------------------------------------------------------------
(* Small helpers.                                                          *)

RECURSIVE SeqsUpTo(_, _)
SeqsUpTo(S, n) ==
    IF n = 0 THEN {<<>>}
    ELSE LET shorter == SeqsUpTo(S, n - 1)
         IN  shorter \cup {Append(s, x) : s \in {t \in shorter : Len(t) = n - 1}, x \in S}

HasPrefix(s, p) == Len(s) >= Len(p) /\ SubSeq(s, 1, Len(p)) = p

Contains(s, x) == \E i \in 1..Len(s) : s[i] = x

-----------------------------------------------------------------------------
(* Bytes, bodies and slices.                                               *)
(*                                                                         *)
(* A body is what a URL serves: its bytes, and `sound`, whether the bytes  *)
(* as a whole are a well-formed stream of the format their signature       *)
(* announces (the codecs' verdict on everything after the signature, which *)
(* the program never looks at itself).                                     *)

PNGSig == <<137, 80, 78, 71, 13, 10, 26, 10>>
JPEGHead == <<255, 216, 255, 224, 0, 16, 74, 70>>
WEBPHead == <<82, 73, 70, 70, 36, 0, 0, 0, 87, 69, 66, 80, 86, 80, 56>>
GIFHead == <<71, 73, 70, 56, 57, 97, 1, 0>>

(* The signatures the codecs register with package image (the imports of   *)
(* main.go:8, 9 and 17); -1 stands for the wildcard "?".                   *)
Magic(format) ==
    CASE format = "png"  -> PNGSig
      [] format = "jpeg" -> <<255, 216>>
      [] format = "webp" -> <<82, 73, 70, 70, -1, -1, -1, -1, 87, 69, 66, 80, 86, 80, 56>>

Bodies ==
    {[bytes |-> SubSeq(PNGSig, 1, n), sound |-> FALSE] : n \in 0..SigLen}
    \cup {[bytes |-> PNGSig \o <<73>>, sound |-> b] : b \in BOOLEAN}
    \cup {[bytes |-> JPEGHead, sound |-> b] : b \in BOOLEAN}
    \cup {[bytes |-> WEBPHead, sound |-> b] : b \in BOOLEAN}
    \cup {[bytes |-> <<255, 216>>, sound |-> FALSE],
          [bytes |-> <<1, 2, 3>>, sound |-> FALSE],
          [bytes |-> GIFHead, sound |-> TRUE]}

(* A Go slice: its elements, its capacity, and what the backing array      *)
(* holds between len and cap ("zero": zero bytes, "sig": the bytes of the  *)
(* PNG signature at the same positions).                                   *)
SpareByte(s, i) == IF s.spare = "sig" /\ i <= SigLen THEN PNGSig[i] ELSE 0

(* imgData[:n], main.go:149.  A slice expression may reach past len up to  *)
(* cap, and panics ("slice bounds out of range") past cap.                 *)
Reslice(s, n) ==
    IF n > s.cap
    THEN [panic |-> TRUE, bytes |-> <<>>]
    ELSE [panic |-> FALSE,
          bytes |-> [i \in 1..n |-> IF i <= Len(s.bytes) THEN s.bytes[i]
                                    ELSE SpareByte(s, i)]]

(* Every slice that can hold body b: exactly sized, or with room to spare. *)
SlicesOf(b) ==
    {[bytes |-> b.bytes, sound |-> b.sound, cap |-> Len(b.bytes), spare |-> "zero"]}
    \cup {[bytes |-> b.bytes, sound |-> b.sound, cap |-> Len(b.bytes) + 2 * SigLen,
           spare |-> sp] : sp \in {"zero", "sig"}}

Slices == UNION {SlicesOf(b) : b \in Bodies}

(* io.ReadAll(resp.Body), main.go:125.  Its contract promises the bytes    *)
(* read and says nothing about the capacity of the slice it returns: the   *)
(* slice is exactly sized or has zeroed room to spare.                     *)
ReadAll(b) == {s \in SlicesOf(b) : s.spare = "zero"}

-----------------------------------------------------------------------------
(* decodeImage, main.go:146-169.                                           *)

(* fmt.Sprintf("%x", b): two hexadecimal digits per byte.                  *)
RECURSIVE Hex(_)
Hex(b) ==
    IF b = <<>> THEN <<>>
    ELSE <<b[1] \div 16, b[1] % 16>> \o Hex(Tail(b))

(* "89504e470d0a1a0a", main.go:149.                                        *)
PNGSigHex == <<8, 9, 5, 0, 4, 14, 4, 7, 0, 13, 0, 10, 1, 10, 0, 10>>

(* bytes.NewReader(imgData): reads the len elements of the slice, from     *)
(* offset off.                                                             *)
NewReader(s) == [bytes |-> s.bytes, sound |-> s.sound, off |-> 0]
Remaining(r) == SubSeq(r.bytes, r.off + 1, Len(r.bytes))
Seek0(r) == [r EXCEPT !.off = 0]
Drained(r) == [r EXCEPT !.off = Len(r.bytes)]

Matches(m, b) ==
    /\ Len(b) >= Len(m)
    /\ \A i \in 1..Len(m) : m[i] = -1 \/ m[i] = b[i]

(* png.Decode, webp.Decode: succeed on a well-formed stream of their       *)
(* format read from its first byte.                                        *)
CodecDecode(format, r) == Matches(Magic(format), Remaining(r)) /\ r.sound

(* image.Decode: sniffs the registered signatures, then runs that codec.   *)
RegisteredFormats == <<"jpeg", "png", "webp">>
Sniff(r) ==
    LET hit == {i \in 1..Len(RegisteredFormats) :
                   Matches(Magic(RegisteredFormats[i]), Remaining(r))}
    IN  IF hit = {} THEN "unknown"
        ELSE RegisteredFormats[CHOOSE i \in hit : \A j \in hit : i <= j]
ImageDecode(r) ==
    LET f == Sniff(r)
    IN  [ok |-> f # "unknown" /\ CodecDecode(f, r), format |-> f]

DecodeOk(format, tried) ==
    [kind |-> "ok", format |-> format, err |-> <<>>, tried |-> tried]
DecodeErr(msg, tried) ==
    [kind |-> "err", format |-> "", err |-> msg, tried |-> tried]
DecodePanic ==
    [kind |-> "panic", format |-> "", err |-> <<>>, tried |-> <<>>]

Attempt(dec, r) == [dec |-> dec, off |-> r.off]

(* A decoder that falls back to the other codecs when the PNG codec fails. *)
decodeImageFallback(imgData) ==
    LET reader == NewReader(imgData)
        head == Reslice(imgData, SigLen)
        isPNG == ~head.panic /\ HasPrefix(Hex(head.bytes), PNGSigHex)
        first == IF isPNG THEN <<Attempt("png", reader)>> ELSE <<>>
        generic == ImageDecode(Seek0(reader))
        rewound == Seek0(Drained(reader))
    IN  IF head.panic THEN DecodePanic
        ELSE IF isPNG /\ CodecDecode("png", reader)
        THEN DecodeOk("png", first)
        ELSE IF generic.ok
        THEN DecodeOk(generic.format, first \o <<Attempt("image", Seek0(reader))>>)
        ELSE IF CodecDecode("webp", rewound)
        THEN DecodeOk("webp", first \o <<Attempt("image", Seek0(reader)),
                                         Attempt("webp", rewound)>>)
        ELSE DecodeErr(<<"unsupported image format">>,
                       first \o <<Attempt("image", Seek0(reader)),
                                  Attempt("webp", rewound)>>)

decodeImage(imgData) ==
    LET reader == NewReader(imgData)
        head == Reslice(imgData, SigLen)
    IN  IF head.panic THEN DecodePanic
        ELSE IF HasPrefix(Hex(head.bytes), PNGSigHex)
        THEN IF CodecDecode("png", reader)
             THEN DecodeOk("png", <<Attempt("png", reader)>>)
             ELSE DecodeErr(<<"PNG decoding failed", "png error">>,
                            <<Attempt("png", reader)>>)
        ELSE LET generic == ImageDecode(reader)
                 rewound == Seek0(Drained(reader))
             IN  IF generic.ok
                 THEN DecodeOk(generic.format, <<Attempt("image", reader)>>)
                 ELSE IF CodecDecode("webp", rewound)
                 THEN DecodeOk("webp", <<Attempt("image", reader),
                                         Attempt("webp", rewound)>>)
                 ELSE DecodeErr(<<"unsupported image format">>,
                                <<Attempt("image", reader),
                                  Attempt("webp", rewound)>>)

-----------------------------------------------------------------------------
(* Statuses, notifications and events (go-mastodon's types).               *)

Visibilities == {"public", "unlisted", "private", "direct"}

Attachment(type, url) == [Type |-> type, URL |-> url]

(* Status.InReplyToID is an interface{}: tag is its dynamic type.          *)
NilID == [tag |-> "nil", val |-> ""]
ReplyTargets ==
    {NilID,
     [tag |-> "string", val |-> ""],
     [tag |-> "string", val |-> "p1"],
     [tag |-> "ID", val |-> "p1"],
     [tag |-> "float64", val |-> "p1"]}

StatusesOver(ids, atts, targets) ==
    [ID : ids, Visibility : Visibilities,
     MediaAttachments : SeqsUpTo(atts, MaxAttachments), InReplyToID : targets]

(* What GetStatus can answer: an error, or a status (acct: its author).    *)
AnswersOver(atts, targets) ==
    {[err |-> TRUE, atts |-> <<>>, reply |-> NilID, acct |-> ""]}
    \cup {[err |-> FALSE, atts |-> a, reply |-> t, acct |-> "bob"] :
             a \in SeqsUpTo(atts, MaxAttachments), t \in targets}

NoFetch ==
    [called |-> FALSE, id |-> "", err |-> FALSE, atts |-> <<>>, reply |-> NilID,
     acct |-> ""]
Fetch(id, answer) ==
    [called |-> TRUE, id |-> id, err |-> answer.err, atts |-> answer.atts,
     reply |-> answer.reply, acct |-> answer.acct]

Notification(acct, status) == [Account |-> [Acct |-> acct], Status |-> status]

NoNotification ==
    Notification("", [ID |-> "", Visibility |-> "public",
                      MediaAttachments |-> <<>>, InReplyToID |-> NilID])

-----------------------------------------------------------------------------
(* collectImages, main.go:77-116.                                          *)

(* A collector that forgets the type test of main.go:82.                   *)
IsImageAny(attachment) == TRUE

IsImage(attachment) == attachment.Type = "image"

(* The two range loops, main.go:81-85 and 107-111.                         *)
ImageURLs(attachments) ==
    LET imgs == SelectSeq(attachments, IsImage)
    IN  [i \in 1..Len(imgs) |-> imgs[i].URL]

(* status.InReplyToID != "", main.go:88: an interface value differs from   *)
(* the string "" unless it holds a string, and that string is empty.       *)
NotEmptyString(id) == ~(id.tag = "string" /\ id.val = "")

(* A type switch without the case of the typed identifier.                 *)
NormalizeIDStringOnly(id) ==
    CASE id.tag = "string" -> id.val
      [] OTHER             -> ""

(* The type switch, main.go:94-103: originalStatusID keeps its zero value  *)
(* in the default case.                                                    *)
NormalizeID(id) ==
    CASE id.tag = "string" -> id.val
      [] id.tag = "ID"     -> id.val
      [] OTHER             -> ""

UnexpectedType(id) == id.tag \notin {"string", "ID"}

GetStatusCall(id) == [op |-> "GetStatus", img |-> 0, arg |-> id]

(* answer is what the service answers if GetStatus is called.              *)
collectImages(status, answer) ==
    LET own == ImageURLs(status.MediaAttachments)
        target == status.InReplyToID
        none == [images |-> own, fetched |-> NoFetch, calls |-> <<>>, logs |-> <<>>]
    IN  IF Len(own) = 0 /\ NotEmptyString(target)
        THEN IF target.tag = "nil"
             THEN none
             ELSE LET id == NormalizeID(target)
                  IN  [images  |-> IF answer.err THEN own
                                   ELSE own \o ImageURLs(answer.atts),
                       fetched |-> Fetch(id, answer),
                       calls   |-> <<GetStatusCall(id)>>,
                       logs    |-> IF UnexpectedType(target)
                                   THEN <<<<"Unexpected type for InReplyToID", target.tag>>>>
                                   ELSE <<>>]
        ELSE none

-----------------------------------------------------------------------------
(* The replies, main.go:171-206.                                           *)

(* A success reply that keeps the visibility of the mention.               *)
ReplyVisibilityKeep(visibility) == visibility

(* main.go:178-180.                                                        *)
ReplyVisibility(visibility) ==
    IF visibility = "public" THEN "unlisted" ELSE visibility

SuccessText == "Here's your compressed JPEG!"

(* A success reply threaded under the status the images came from.         *)
SuccessTootToParent(n, media, visibility) ==
    [Status      |-> <<"@", n.Account.Acct, SuccessText>>,
     InReplyToID |-> IF fetched.called THEN fetched.id ELSE n.Status.ID,
     MediaIDs    |-> <<media>>,
     Visibility  |-> ReplyVisibility(visibility)]

(* A success reply that always carries the medium of the first image.      *)
SuccessTootFirstMedia(n, media, visibility) ==
    [Status      |-> <<"@", n.Account.Acct, SuccessText>>,
     InReplyToID |-> n.Status.ID,
     MediaIDs    |-> <<<<media[1], 1>>>>,
     Visibility  |-> ReplyVisibility(visibility)]

(* The Toot of uploadMediaAndReply, main.go:182-187.                       *)
SuccessToot(n, media, visibility) ==
    [Status      |-> <<"@", n.Account.Acct, SuccessText>>,
     InReplyToID |-> n.Status.ID,
     MediaIDs    |-> <<media>>,
     Visibility  |-> ReplyVisibility(visibility)]

(* The Toot of replyWithError, main.go:196-200.                            *)
ErrorToot(n, errorMsg) ==
    [Status      |-> <<"@", n.Account.Acct, "Oops!">> \o errorMsg,
     InReplyToID |-> n.Status.ID,
     MediaIDs    |-> <<>>,
     Visibility  |-> n.Status.Visibility]

PostCall(i, toot) == [op |-> "PostStatus", img |-> i, arg |-> toot]
GetCall(i, url) == [op |-> "Get", img |-> i, arg |-> url]
UploadCall(i, media) == [op |-> "UploadMedia", img |-> i, arg |-> media]

IsSuccessReply(c) == c.op = "PostStatus" /\ Contains(c.arg.Status, SuccessText)
IsErrorReply(c) == c.op = "PostStatus" /\ Contains(c.arg.Status, "Oops!")

(* The error values of downloadAndCompressImage, main.go:121-140, and the  *)
(* messages handleMention and uploadMediaAndReply wrap them in.            *)
DownloadErr == <<"failed to download image", "net error">>
ReadErr == <<"failed to read image data", "read error">>
DecodeErrOf(err) == <<"error decoding image">> \o err
EncodeErr == <<"error encoding to jpeg", "jpeg error">>
NoImagesMsg == <<"No images found to process.">>
CompressMsg(err) == <<"Error compressing image">> \o err
UploadMsg == <<"Error uploading media", "upload error">>
PostMsg == <<"Error posting reply", "post error">>

-----------------------------------------------------------------------------
(* downloadAndCompressImage, main.go:118-144.                              *)
(*                                                                         *)
(* o is what the world does during the call: whether http.Get and          *)
(* io.ReadAll succeed, the slice ReadAll returns, whether jpeg.Encode      *)
(* succeeds.                                                               *)

DownloadOutcomes ==
    {[get |-> FALSE, read |-> FALSE, imgData |-> <<>>, encode |-> FALSE],
     [get |-> TRUE, read |-> FALSE, imgData |-> <<>>, encode |-> FALSE]}
    \cup {[get |-> TRUE, read |-> TRUE, imgData |-> <<s>>, encode |-> e] :
             s \in UNION {ReadAll(b) : b \in Bodies}, e \in BOOLEAN}

Compressed(format) ==
    [kind |-> "ok", err |-> <<>>, stage |-> "compressed",
     logs |-> <<<<"Decoded image with format", format>>>>, panicOn |-> <<>>]
Failed(stage, err, lines) ==
    [kind |-> "err", err |-> err, stage |-> stage, logs |-> lines, panicOn |-> <<>>]
Panicked(imgData) ==
    [kind |-> "panic", err |-> <<>>, stage |-> "decode_panicked", logs |-> <<>>,
     panicOn |-> imgData]

downloadAndCompressImage(o) ==
    IF ~o.get THEN Failed("download_failed", DownloadErr, <<>>)
    ELSE IF ~o.read THEN Failed("read_failed", ReadErr, <<>>)
    ELSE LET d == decodeImage(o.imgData[1])
         IN  IF d.kind = "panic" THEN Panicked(o.imgData)
             ELSE IF d.kind = "err"
             THEN Failed("decode_failed", DecodeErrOf(d.err), <<>>)
             ELSE IF ~o.encode
             THEN Failed("encode_failed", EncodeErr, Compressed(d.format).logs)
             ELSE Compressed(d.format)

(* Every way the call can end.                                             *)
CompressResults == {downloadAndCompressImage(o) : o \in DownloadOutcomes}

-----------------------------------------------------------------------------
(* The state machine: main (main.go:31-56) and handleMention (58-75).      *)

NoEvent == [kind |-> "", Type |-> "", Notification |-> NoNotification]

NoCur == [err |-> <<>>, stage |-> "", media |-> <<>>, panicOn |-> <<>>]

Init ==
    /\ loop = "starting"
    /\ exit = "none"
    /\ streamOpen = FALSE
    /\ nEvents = 0
    /\ event = NoEvent
    /\ pc = "idle"
    /\ notification = NoNotification
    /\ fetched = NoFetch
    /\ images = <<>>
    /\ idx = 0
    /\ cur = NoCur
    /\ calls = <<>>
    /\ outcome = <<>>
    /\ logs = <<>>
    /\ decIn = <<>>
    /\ decOut = <<>>

handlerVars == <<pc, notification, fetched, images, idx, cur, calls, outcome, logs>>
decVars == <<decIn, decOut>>

(* A main that reports the error and goes on.                              *)
AfterFatalGoesOn(ok, next) == next

(* if err != nil { log.Fatalf(...) }, main.go:32-34 and 45-47: log.Fatalf  *)
(* ends the process.                                                       *)
AfterFatal(ok, next) == IF ok THEN next ELSE "terminated"

(* toml.DecodeFile, main.go:32-34.                                         *)
LoadConfig ==
    /\ loop = "starting"
    /\ \E ok \in BOOLEAN :
          /\ loop' = AfterFatal(ok, "connecting")
          /\ exit' = IF ok THEN exit ELSE "config"
    /\ UNCHANGED <<streamOpen, nEvents, handlerVars, decVars, event>>

(* ws.StreamingWSUser, main.go:43-49.                                      *)
Connect ==
    /\ loop = "connecting"
    /\ \E ok \in BOOLEAN :
          /\ loop' = AfterFatal(ok, "listening")
          /\ exit' = IF ok THEN exit ELSE "connect"
          /\ streamOpen' = ok
    /\ UNCHANGED <<nEvents, handlerVars, decVars, event>>

(* The events the stream delivers.                                         *)
MainAttachments == {Attachment("image", "u1"), Attachment("video", "v1")}
MainTargets == {NilID, [tag |-> "string", val |-> "p1"], [tag |-> "float64", val |-> "p1"]}
MainAnswers == AnswersOver(MainAttachments, {NilID})

MentionEvents ==
    {[kind |-> "notification", Type |-> "mention", Notification |-> Notification("alice", st)] :
        st \in StatusesOver({"s1"}, MainAttachments, MainTargets)}
OtherEvents ==
    {[kind |-> "notification", Type |-> "favourite",
      Notification |-> Notification("bob",
          [ID |-> "s1", Visibility |-> "public",
           MediaAttachments |-> <<Attachment("image", "u1")>>, InReplyToID |-> NilID])],
     [kind |-> "update", Type |-> "", Notification |-> NoNotification]}
Events == MentionEvents \cup OtherEvents

(* A filter that forgets the notification's type.                          *)
IsMentionAnyType(e) == e.kind = "notification"

(* The type assertion to NotificationEvent and Type == "mention",          *)
(* main.go:52.                                                             *)
IsMention(e) == e.kind = "notification" /\ e.Type = "mention"

(* A loop that dispatches the handler without waiting for the one at work. *)
ReceiveWhileHandling ==
    /\ loop = "listening"
    /\ streamOpen
    /\ nEvents < MaxEvents
    /\ \E e \in Events :
          /\ event' = e
          /\ nEvents' = nEvents + 1
          /\ pc' = IF e.kind = "notification" /\ e.Type = "mention" THEN "collect" ELSE pc
          /\ notification' = IF e.kind = "notification" /\ e.Type = "mention"
                             THEN e.Notification ELSE notification
    /\ UNCHANGED <<loop, exit, streamOpen, fetched, images, idx, cur, calls, outcome,
                   logs, decVars>>

(* for event := range events, main.go:51-55.                               *)
Receive ==
    /\ loop = "listening"
    /\ pc = "idle"
    /\ streamOpen
    /\ nEvents < MaxEvents
    /\ \E e \in Events :
          /\ event' = e
          /\ nEvents' = nEvents + 1
          /\ pc' = IF IsMention(e) THEN "collect" ELSE "idle"
          /\ notification' = IF IsMention(e) THEN e.Notification
                             ELSE NoNotification
    /\ UNCHANGED <<loop, exit, streamOpen, fetched, images, idx, cur, calls, outcome,
                   logs, decVars>>

(* handleMention returns to the range loop of main, main.go:53-55: its     *)
(* locals, and with them the record of what it did, are gone.              *)
Return ==
    /\ loop = "listening"
    /\ pc = "done"
    /\ pc' = "idle"
    /\ notification' = NoNotification
    /\ fetched' = NoFetch
    /\ images' = <<>>
    /\ idx' = 0
    /\ cur' = NoCur
    /\ calls' = <<>>
    /\ outcome' = <<>>
    /\ logs' = <<>>
    /\ UNCHANGED <<loop, exit, streamOpen, nEvents, decVars, event>>

(* The range loop finds the events channel closed, and main returns.  The  *)
(* loop looks at the channel only between two events.                      *)
LoopExit ==
    /\ loop = "listening"
    /\ pc = "idle"
    /\ streamOpen
    /\ streamOpen' = FALSE
    /\ loop' = "terminated"
    /\ exit' = "closed"
    /\ UNCHANGED <<nEvents, handlerVars, decVars, event>>

(* A handler that returns without a reply when there is nothing to do.     *)
AfterCollectSilent(imgs) == IF Len(imgs) = 0 THEN "done" ELSE "download"

(* if len(images) == 0, main.go:62.                                        *)
AfterCollect(imgs) == IF Len(imgs) = 0 THEN "noimages" ELSE "download"

(* images := collectImages(client, status), main.go:59-60.                 *)
Collect(answers) ==
    /\ loop = "listening"
    /\ pc = "collect"
    /\ \E answer \in answers :
          LET r == collectImages(notification.Status, answer)
          IN  /\ images' = r.images
              /\ fetched' = r.fetched
              /\ calls' = calls \o r.calls
              /\ logs' = r.logs
              /\ pc' = AfterCollect(r.images)
              /\ idx' = IF Len(r.images) = 0 THEN 0 ELSE 1
    /\ UNCHANGED <<loop, exit, streamOpen, nEvents, notification, cur, outcome, decVars, event>>

CollectImages == Collect(MainAnswers)

(* What replyWithError logs when PostStatus fails, main.go:202-205.        *)
ErrorReplyLogs(ok) == IF ok THEN <<>> ELSE <<<<"Error posting error reply", "post error">>>>

(* replyWithError(..., "No images found to process.") and return,          *)
(* main.go:62-65.                                                          *)
ReplyNoImages ==
    /\ loop = "listening"
    /\ pc = "noimages"
    /\ calls' = Append(calls, PostCall(0, ErrorToot(notification, NoImagesMsg)))
    /\ \E ok \in BOOLEAN : logs' = ErrorReplyLogs(ok)
    /\ pc' = "done"
    /\ UNCHANGED <<loop, exit, streamOpen, nEvents, notification, fetched, images,
                   idx, cur, outcome, decVars, event>>

(* The range loop over images, main.go:67: the step after image i.         *)
NextPc(i, imgs) == IF i < Len(imgs) THEN "download" ELSE "done"
NextIdx(i, imgs) == IF i < Len(imgs) THEN i + 1 ELSE i

(* compressedJPEG, err := downloadAndCompressImage(imageURL),              *)
(* main.go:68-72.  A panic is not recovered anywhere: it ends the process. *)
DownloadAndCompress ==
    /\ loop = "listening"
    /\ pc = "download"
    /\ calls' = Append(calls, GetCall(idx, images[idx]))
    /\ \E r \in CompressResults :
              /\ logs' = r.logs
              /\ CASE r.kind = "ok" ->
                        /\ pc' = "upload"
                        /\ cur' = NoCur
                        /\ UNCHANGED <<loop, exit, outcome>>
                   [] r.kind = "err" ->
                        /\ pc' = "replyErr"
                        /\ cur' = [NoCur EXCEPT !.err = CompressMsg(r.err),
                                                !.stage = r.stage]
                        /\ UNCHANGED <<loop, exit, outcome>>
                   [] r.kind = "panic" ->
                        /\ pc' = "crashed"
                        /\ cur' = [NoCur EXCEPT !.stage = r.stage,
                                                !.panicOn = r.panicOn]
                        /\ outcome' = Append(outcome, r.stage)
                        /\ loop' = "terminated"
                        /\ exit' = "panic"
    /\ UNCHANGED <<streamOpen, nEvents, notification, fetched, images, idx, decVars, event>>

(* The identifier the service gives the medium of an upload: a fresh one   *)
(* for every upload, named here after the event and the image.             *)
FreshMedia(n, i) == <<n, i>>

(* client.UploadMediaFromReader, main.go:172-176.                          *)
UploadMedia ==
    /\ loop = "listening"
    /\ pc = "upload"
    /\ \E ok \in BOOLEAN :
          IF ok
          THEN /\ calls' = Append(calls, UploadCall(idx, <<FreshMedia(nEvents, idx)>>))
               /\ cur' = [NoCur EXCEPT !.media = <<FreshMedia(nEvents, idx)>>]
               /\ pc' = "post"
          ELSE /\ calls' = Append(calls, UploadCall(idx, <<>>))
               /\ cur' = [NoCur EXCEPT !.err = UploadMsg, !.stage = "upload_failed"]
               /\ pc' = "replyErr"
    /\ logs' = <<>>
    /\ UNCHANGED <<loop, exit, streamOpen, nEvents, notification, fetched, images,
                   idx, outcome, decVars, event>>

(* A reply whose posting failure is dropped.                               *)
AfterPostIgnored(ok) == "next"

(* if err != nil after client.PostStatus(ctx, reply), main.go:189-192.     *)
AfterPost(ok) == IF ok THEN "next" ELSE "replyErr"

(* The success reply, main.go:178-192.                                     *)
PostReply ==
    /\ loop = "listening"
    /\ pc = "post"
    /\ calls' = Append(calls, PostCall(idx,
                   SuccessToot(notification, cur.media[1], notification.Status.Visibility)))
    /\ \E ok \in BOOLEAN :
          LET to == AfterPost(ok)
          IN  /\ pc' = IF to = "next" THEN NextPc(idx, images) ELSE to
              /\ idx' = IF to = "next" THEN NextIdx(idx, images) ELSE idx
              /\ cur' = IF to = "next" THEN NoCur
                        ELSE [NoCur EXCEPT !.err = PostMsg, !.stage = "post_failed"]
              /\ outcome' = IF to = "next"
                            THEN Append(outcome, IF ok THEN "posted" ELSE "post_failed")
                            ELSE outcome
    /\ logs' = <<>>
    /\ UNCHANGED <<loop, exit, streamOpen, nEvents, notification, fetched, images, decVars, event>>

(* A replyWithError that posts the error reply again when posting fails.   *)
ReplyWithErrorRetry ==
    /\ loop = "listening"
    /\ pc = "replyErr"
    /\ \E ok \in BOOLEAN :
          /\ calls' = IF ok THEN Append(calls, PostCall(idx, ErrorToot(notification, cur.err)))
                      ELSE calls \o <<PostCall(idx, ErrorToot(notification, cur.err)),
                                      PostCall(idx, ErrorToot(notification, cur.err))>>
          /\ logs' = ErrorReplyLogs(ok)
    /\ outcome' = Append(outcome, cur.stage)
    /\ pc' = NextPc(idx, images)
    /\ idx' = NextIdx(idx, images)
    /\ cur' = NoCur
    /\ UNCHANGED <<loop, exit, streamOpen, nEvents, notification, fetched, images, decVars, event>>

(* replyWithError for the image at hand, main.go:70, 174, 191, 195-206;    *)
(* then the range loop goes on.                                            *)
ReplyWithError ==
    /\ loop = "listening"
    /\ pc = "replyErr"
    /\ calls' = Append(calls, PostCall(idx, ErrorToot(notification, cur.err)))
    /\ \E ok \in BOOLEAN : logs' = ErrorReplyLogs(ok)
    /\ outcome' = Append(outcome, cur.stage)
    /\ pc' = NextPc(idx, images)
    /\ idx' = NextIdx(idx, images)
    /\ cur' = NoCur
    /\ UNCHANGED <<loop, exit, streamOpen, nEvents, notification, fetched, images, decVars, event>>

Next ==
    \/ LoadConfig
    \/ Connect
    \/ Receive
    \/ LoopExit
    \/ CollectImages
    \/ ReplyNoImages
    \/ DownloadAndCompress
    \/ UploadMedia
    \/ PostReply
    \/ ReplyWithError
    \/ Return

Spec == Init /\ [][Next]_vars

-----------------------------------------------------------------------------
(* collectImages on its own: every status, every answer of the service.    *)

AllAttachments ==
    {Attachment("image", "u1"), Attachment("image", "u2"), Attachment("video", "v1")}
AllAnswers == AnswersOver(AllAttachments, {NilID, [tag |-> "string", val |-> "g1"]})

InitCollect ==
    /\ loop = "listening"
    /\ exit = "none"
    /\ streamOpen = TRUE
    /\ nEvents = 1
    /\ event = NoEvent
    /\ pc = "collect"
    /\ notification \in {Notification("alice", st) :
                            st \in StatusesOver({"s1"}, AllAttachments, ReplyTargets)}
    /\ fetched = NoFetch
    /\ images = <<>>
    /\ idx = 0
    /\ cur = NoCur
    /\ calls = <<>>
    /\ outcome = <<>>
    /\ logs = <<>>
    /\ decIn = <<>>
    /\ decOut = <<>>

CollectAny == Collect(AllAnswers)

SpecCollect == InitCollect /\ [][CollectAny]_vars

-----------------------------------------------------------------------------
(* decodeImage on its own: every slice of every body.                      *)

InitDecode ==
    /\ loop = "listening"
    /\ exit = "none"
    /\ streamOpen = TRUE
    /\ nEvents = 1
    /\ event = NoEvent
    /\ pc = "download"
    /\ notification = NoNotification
    /\ fetched = NoFetch
    /\ images = <<>>
    /\ idx = 0
    /\ cur = NoCur
    /\ calls = <<>>
    /\ outcome = <<>>
    /\ logs = <<>>
    /\ decIn \in {<<s>> : s \in Slices}
    /\ decOut = <<>>

(* img, format, err := decodeImage(imgData), main.go:130.                  *)
Decode ==
    /\ decIn # <<>>
    /\ decOut = <<>>
    /\ decOut' = <<decodeImage(decIn[1])>>
    /\ UNCHANGED <<loop, exit, streamOpen, nEvents, event, handlerVars, decIn>>

SpecDecode == InitDecode /\ [][Decode]_vars

-----------------------------------------------------------------------------
(* Vocabulary of the properties.                                           *)

Status == notification.Status

(* The requests sent for image j, in order.                                *)
CallsOf(op, j) == SelectSeq(calls, LAMBDA c : c.op = op /\ c.img = j)
NotGetStatus(c) == c.op # "GetStatus"

(* imgs is the URLs of the image attachments of atts, one entry for each,  *)
(* in the order of atts.                                                   *)
IsImageURLsOf(imgs, atts) ==
    LET I == {k \in 1..Len(atts) : atts[k].Type = "image"}
    IN  /\ Len(imgs) = Cardinality(I)
        /\ \A k \in I : imgs[Cardinality({j \in I : j <= k})] = atts[k].URL

HasImage(atts) == \E k \in 1..Len(atts) : atts[k].Type = "image"

Collected == pc \notin {"idle", "collect"}

(* The stages at which downloadAndCompressImage can fail an image.         *)
CompressFailures ==
    {"download_failed", "read_failed", "decode_failed", "decode_panicked", "encode_failed"}

-----------------------------------------------------------------------------
C2_DecodeTotal ==
    decOut # <<>> =>
        \/ decOut[1].kind = "ok" /\ decOut[1].format \in {"png", "jpeg", "webp"}
        \/ decOut[1].kind = "err" /\ decOut[1].err # <<>>

C4_ReplyVisibility ==
    \A i \in 1..Len(calls) :
        LET c == calls[i]
        IN  c.op = "PostStatus" =>
               /\ IsSuccessReply(c) \/ IsErrorReply(c)
               /\ IsSuccessReply(c) =>
                     /\ Status.Visibility = "public" => c.arg.Visibility = "unlisted"
                     /\ Status.Visibility # "public" => c.arg.Visibility = Status.Visibility
               /\ IsErrorReply(c) => c.arg.Visibility = Status.Visibility

(* Witness of C4: a public mention answered with one success reply and,    *)
(* for another image, one error reply.                                     *)
C4_Witness ==
    /\ pc = "done"
    /\ Status.Visibility = "public"
    /\ outcome = <<"posted", "decode_failed">>
    /\ Len(CallsOf("PostStatus", 1)) = 1
    /\ CallsOf("PostStatus", 1)[1].arg.Visibility = "unlisted"
    /\ CallsOf("PostStatus", 2)[1].arg.Visibility = "public"

(* C5: when the collector returned no images, handling the mention sends   *)
(* exactly one post, the error reply "No images found to process", and no  *)
(* download, no upload and no other post.                                  *)
C5_NoImagesOneReply ==
    Collected /\ images = <<>> =>
        LET sent == SelectSeq(calls, NotGetStatus)
        IN  /\ pc \in {"noimages", "done"}
            /\ pc = "noimages" => sent = <<>>
            /\ pc = "done" =>
                  /\ Len(sent) = 1
                  /\ IsErrorReply(sent[1])
                  /\ Contains(sent[1].arg.Status, "No images found to process.")
                  /\ sent[1].arg.MediaIDs = <<>>

(* Witness of C5: the parent fetch failed, and the one reply was sent.     *)
C5_Witness ==
    /\ pc = "done"
    /\ images = <<>>
    /\ fetched.called /\ fetched.err
    /\ Len(calls) = 2
    /\ IsErrorReply(calls[2])

(* C6, as stated: an image whose upload succeeded gets exactly one post,   *)
(* the success reply; when that post fails no further post is made for     *)
(* the image.                                                              *)
C6_Original ==
    \A j \in 1..Len(outcome) :
        outcome[j] \in {"posted", "post_failed"} =>
            /\ Len(CallsOf("PostStatus", j)) = 1
            /\ IsSuccessReply(CallsOf("PostStatus", j)[1])

(* C6, amended: an image whose upload succeeded gets exactly one success   *)
(* reply, with the text "Here's your compressed JPEG!" and the uploaded    *)
(* medium, and it is never sent again; when posting it succeeds no other   *)
(* post is made for the image, and when posting it fails exactly one more  *)
(* post follows, the error reply "Error posting reply".                    *)
C6_SuccessReplyOnce ==
    \A j \in 1..Len(outcome) :
        outcome[j] \in {"posted", "post_failed"} =>
            LET posts == CallsOf("PostStatus", j)
                ups == CallsOf("UploadMedia", j)
            IN  /\ Len(ups) = 1 /\ Len(ups[1].arg) = 1
                /\ Len(posts) >= 1
                /\ IsSuccessReply(posts[1])
                /\ posts[1].arg.Status = <<"@", notification.Account.Acct,
                                           "Here's your compressed JPEG!">>
                /\ posts[1].arg.MediaIDs = ups[1].arg
                /\ \A k \in 2..Len(posts) : ~IsSuccessReply(posts[k])
                /\ outcome[j] = "posted" => Len(posts) = 1
                /\ outcome[j] = "post_failed" =>
                      /\ Len(posts) = 2
                      /\ IsErrorReply(posts[2])
                      /\ Contains(posts[2].arg.Status, "Error posting reply")

(* Witness of C6: an image whose success reply could not be posted.        *)
C6_Witness ==
    /\ pc = "done"
    /\ outcome = <<"posted", "post_failed">>
    /\ Len(CallsOf("PostStatus", 2)) = 2

C8_OwnImages ==
    Collected /\ HasImage(Status.MediaAttachments) =>
        /\ IsImageURLsOf(images, Status.MediaAttachments)
        /\ calls = <<>>
        /\ ~fetched.called

(* Witness of C8: a reply with a video and an image of its own.            *)
C8_Witness ==
    /\ Collected
    /\ Len(Status.MediaAttachments) = 2
    /\ Status.MediaAttachments[1].Type = "video"
    /\ Status.InReplyToID = [tag |-> "string", val |-> "p1"]
    /\ images = <<"u2">>

(* C9: for a status without image attachments whose reply-target is        *)
(* present (a non-empty string or a typed identifier) collectImages        *)
(* fetches the parent once, by that identifier, and returns the parent's   *)
(* image URLs in attachment order, or the empty sequence when the fetch    *)
(* fails; the parent's own reply-target is not followed.                   *)
C9_ParentImages ==
    LET target == Status.InReplyToID
    IN  /\ Collected
        /\ ~HasImage(Status.MediaAttachments)
        /\ target.tag \in {"string", "ID"}
        /\ target.val # ""
        => /\ calls = <<GetStatusCall(target.val)>>
           /\ fetched.called
           /\ fetched.err => images = <<>>
           /\ ~fetched.err => IsImageURLsOf(images, fetched.atts)

(* Witness of C9: the parent, itself a reply, has a video and an image.    *)
C9_Witness ==
    /\ Collected
    /\ ~HasImage(Status.MediaAttachments)
    /\ Status.InReplyToID.tag = "ID"
    /\ fetched.called /\ ~fetched.err
    /\ fetched.reply.tag = "string"
    /\ fetched.atts = <<Attachment("video", "v1"), Attachment("image", "u2")>>
    /\ images = <<"u2">>

(* C10: a reply-target of an unrecognized representation is treated as     *)
(* absent: no status is fetched and the empty sequence is returned.        *)
C10_UnrecognizedIsAbsent ==
    /\ Collected
    /\ ~HasImage(Status.MediaAttachments)
    /\ Status.InReplyToID.tag \notin {"nil", "string", "ID"}
    => /\ calls = <<>>
       /\ ~fetched.called
       /\ images = <<>>

-----------------------------------------------------------------------------
(* C11: events are handled one at a time and the images of a mention in    *)
(* list order: an event is taken only when no handler is at work and every *)
(* request of the event before has been made, and the requests of a        *)
(* mention are grouped by image, in list order, each group starting with   *)
(* the download of its image.                                              *)
C11_CallsInOrder ==
    /\ \A a \in 1..Len(calls) :
          /\ calls[a].img <= idx
          /\ calls[a].img = 0 => calls[a].op \in {"GetStatus", "PostStatus"}
          /\ a > 1 => calls[a - 1].img <= calls[a].img
          /\ calls[a].img > 0 /\ (a = 1 \/ calls[a - 1].img < calls[a].img)
                => calls[a] = GetCall(calls[a].img, images[calls[a].img])
    /\ \A j \in 1..idx : pc \notin {"download"} \/ j < idx => CallsOf("Get", j) # <<>>

C11_OneAtATime ==
    /\ []C11_CallsInOrder
    /\ [][nEvents' # nEvents =>
             /\ nEvents' = nEvents + 1
             /\ pc = "idle" /\ calls = <<>> /\ calls' = <<>>]_vars
    /\ [][idx' # idx /\ idx' > 1 =>
             /\ idx' = idx + 1
             /\ pc \in {"post", "replyErr"}
             /\ pc' = "download"]_vars

(* Witness of C11: the second event, a mention with two images, both       *)
(* answered.                                                               *)
C11_Witness ==
    /\ nEvents = 2
    /\ pc = "done"
    /\ outcome = <<"posted", "posted">>
    /\ [a \in 1..Len(calls) |-> <<calls[a].op, calls[a].img>>] =
          << <<"Get", 1>>, <<"UploadMedia", 1>>, <<"PostStatus", 1>>,
             <<"Get", 2>>, <<"UploadMedia", 2>>, <<"PostStatus", 2>> >>

(* C12: every reply, success or error, replies to the mentioning status    *)
(* and addresses the account of the notification, also when the images     *)
(* came from the parent; never the parent status or its author.            *)
C12_ReplyTarget ==
    \A i \in 1..Len(calls) :
        calls[i].op = "PostStatus" =>
            /\ calls[i].arg.InReplyToID = notification.Status.ID
            /\ SubSeq(calls[i].arg.Status, 1, 2) = <<"@", notification.Account.Acct>>
            /\ fetched.called /\ ~fetched.err =>
                  /\ calls[i].arg.InReplyToID # fetched.id
                  /\ ~Contains(calls[i].arg.Status, fetched.acct)

(* Witness of C12: the images came from the parent; one was answered with  *)
(* a success reply, the other with an error reply.                         *)
C12_Witness ==
    /\ pc = "done"
    /\ fetched.called /\ ~fetched.err /\ fetched.id = "p1" /\ fetched.acct = "bob"
    /\ outcome = <<"posted", "upload_failed">>
    /\ notification.Account.Acct = "alice"
    /\ IsSuccessReply(CallsOf("PostStatus", 1)[1])
    /\ IsErrorReply(CallsOf("PostStatus", 2)[1])

(* C13: input that begins with the 8-byte PNG signature is handled by the  *)
(* PNG decoder alone: the label is "png" when it succeeds, and when it     *)
(* fails the result is an error, with neither the generic detection nor    *)
(* the WEBP decoder attempted.                                             *)
C13_PNGOnly ==
    /\ decOut # <<>>
    /\ Len(decIn[1].bytes) >= 8
    /\ SubSeq(decIn[1].bytes, 1, 8) = PNGSig
    => /\ decOut[1].tried = <<[dec |-> "png", off |-> 0]>>
       /\ decIn[1].sound => decOut[1].kind = "ok" /\ decOut[1].format = "png"
       /\ ~decIn[1].sound =>
             /\ decOut[1].kind = "err"
             /\ decOut[1].err[1] = "PNG decoding failed"

(* Witness of C13: a stream with the PNG signature that the PNG decoder    *)
(* rejects.                                                                *)
C13_Witness ==
    /\ decOut # <<>>
    /\ decIn[1].bytes = PNGSig \o <<73>>
    /\ ~decIn[1].sound
    /\ decOut[1].kind = "err"
    /\ decOut[1].tried = <<[dec |-> "png", off |-> 0]>>

(* C14: for input without the PNG signature the generic detection is tried *)
(* first and its result returned on success; the WEBP decoder is tried     *)
(* only after it failed, from the first byte of the input; the call fails  *)
(* with the unsupported-format error exactly when both attempts fail.      *)
C14_GenericThenWebp ==
    /\ decOut # <<>>
    /\ ~(Len(decIn[1].bytes) >= 8 /\ SubSeq(decIn[1].bytes, 1, 8) = PNGSig)
    => LET in == NewReader(decIn[1])
           generic == [dec |-> "image", off |-> 0]
           webp == [dec |-> "webp", off |-> 0]
       IN  /\ decOut[1].kind \in {"ok", "err"}
           /\ ImageDecode(in).ok =>
                 /\ decOut[1].kind = "ok"
                 /\ decOut[1].format = ImageDecode(in).format
                 /\ decOut[1].tried = <<generic>>
           /\ ~ImageDecode(in).ok => decOut[1].tried = <<generic, webp>>
           /\ decOut[1].kind = "err" <=>
                 ~ImageDecode(in).ok /\ ~CodecDecode("webp", in)
           /\ decOut[1].kind = "err" => decOut[1].err = <<"unsupported image format">>

(* C15: replyWithError makes exactly one post attempt; when it fails the   *)
(* failure is only logged, nothing else is sent, and handling goes on as   *)
(* if the reply had been posted.                                           *)
C15_ErrorReplyOnce ==
    [][(pc \in {"replyErr", "noimages"}) =>
          /\ Len(calls') = Len(calls) + 1
          /\ SubSeq(calls', 1, Len(calls)) = calls
          /\ IsErrorReply(calls'[Len(calls')])
          /\ logs' \in {<<>>, <<<<"Error posting error reply", "post error">>>>}
          /\ loop' = "listening"
          /\ pc' = (IF pc = "replyErr" /\ idx < Len(images) THEN "download" ELSE "done")
          /\ idx' = (IF pc = "replyErr" /\ idx < Len(images) THEN idx + 1 ELSE idx)
      ]_vars

(* Witness of C15: the error reply for image 1 could not be posted, and    *)
(* the handler is at the download of image 2.                              *)
C15_Witness ==
    /\ logs = <<<<"Error posting error reply", "post error">>>>
    /\ pc = "download"
    /\ idx = 2
    /\ outcome = <<"download_failed">>
    /\ Len(calls) = 2

(* C16: an event that is not a notification of type "mention" causes no    *)
(* status fetch, no download, no upload and no post: the loop only waits   *)
(* for the next event.                                                     *)
C16_OtherEventsIgnored ==
    nEvents > 0 /\ ~(event.kind = "notification" /\ event.Type = "mention") =>
        /\ pc = "idle"
        /\ calls = <<>>
        /\ notification = NoNotification
        /\ images = <<>>

(* Witness of C16: the second event is a favourite notification.           *)
C16_Witness ==
    /\ nEvents = 2
    /\ event.kind = "notification"
    /\ event.Type = "favourite"
    /\ loop = "listening"

(* C17: the loop listens only after the configuration was loaded and the   *)
(* stream was connected; when either fails the process is terminated, for  *)
(* good, having taken no event and sent nothing.                           *)
C17_FatalStartup ==
    /\ [](exit \in {"config", "connect"} =>
             /\ loop = "terminated"
             /\ nEvents = 0
             /\ pc = "idle"
             /\ calls = <<>>)
    /\ [](loop = "listening" => exit = "none" /\ streamOpen)
    /\ [][loop' # loop =>
             \/ loop = "starting" /\ loop' \in {"connecting", "terminated"}
             \/ loop = "connecting" /\ loop' \in {"listening", "terminated"}
             \/ loop = "listening" /\ loop' = "terminated"]_vars

(* Witness of C17: the streaming connection failed.                        *)
C17_Witness ==
    /\ exit = "connect"
    /\ loop = "terminated"
    /\ ~streamOpen
    /\ nEvents = 0

C19_UploadThenReply ==
    /\ \A p \in 1..Len(calls) :
          /\ calls[p].op = "UploadMedia" =>
                /\ p > 1
                /\ calls[p - 1] = GetCall(calls[p].img, images[calls[p].img])
                /\ calls[p].img <= Len(outcome) =>
                      outcome[calls[p].img] \notin CompressFailures
          /\ IsSuccessReply(calls[p]) =>
                /\ p > 1
                /\ calls[p - 1].op = "UploadMedia"
                /\ calls[p - 1].img = calls[p].img
                /\ Len(calls[p - 1].arg) = 1
                /\ calls[p].arg.MediaIDs = calls[p - 1].arg
    /\ \A p, q \in 1..Len(calls) :
          /\ calls[p].op = "UploadMedia" /\ calls[q].op = "UploadMedia"
          /\ p # q
          => calls[p].arg = <<>> \/ calls[p].arg # calls[q].arg

(* Witness of C19: two images, each uploaded and answered with its own     *)
(* medium.                                                                 *)
C19_Witness ==
    /\ pc = "done"
    /\ outcome = <<"posted", "posted">>
    /\ CallsOf("PostStatus", 1)[1].arg.MediaIDs = CallsOf("UploadMedia", 1)[1].arg
    /\ CallsOf("PostStatus", 2)[1].arg.MediaIDs = CallsOf("UploadMedia", 2)[1].arg
    /\ CallsOf("UploadMedia", 1)[1].arg # CallsOf("UploadMedia", 2)[1].arg

====
